---- MODULE Spec2Model ----
(***************************************************************************)
(* A model of the note_lib crate of the chords repository: the semitone    *)
(* decomposition, the SimpleInterval tables, the enharmonic biasing of     *)
(* intervals and of abstract notes, the Note/AbstractNote arithmetic,      *)
(* chords and their inversions, chord qualities, compound intervals and    *)
(* the parsing of note names.  The pure functions are operators, computed  *)
(* as the Rust code computes them, and the state machine applies one of    *)
(* them to inputs drawn from bounded sets.  The objects with state, the    *)
(* iterator over a scale and the ChordContext of chord_map_egui, have      *)
(* specifications of their own.                                            *)
(***************************************************************************)
EXTENDS Integers, Sequences, FiniteSets, TLC

VARIABLES
    op,             \* the function the last call applied
    arg,            \* its arguments
    ret,            \* what it returned
    pc,             \* "done", or "loop" inside bias_abstract_note_to_enharmonic_equivalent
    current_note,   \* the loop's local current_note
    semitone_acc,   \* the loop's local semitone_acc
    scale_iters,    \* the ScaleNoteIter objects created so far
    yielded,        \* per ScaleNoteIter, what its next() calls returned, in order
    chord_context   \* the ChordContext object, once constructed

vars == <<op, arg, ret, pc, current_note, semitone_acc,
          scale_iters, yielded, chord_context>>

-----------------------------------------------------------------------------
(* Bounds of the inputs.                                                   *)

\* semitone arguments range over -MaxSemitones..MaxSemitones
MaxSemitones == 30
\* octaves of the input notes range over 0..MaxOctave
MaxOctave == 2

SemitoneInputs == (0 - MaxSemitones)..MaxSemitones
OctaveInputs == 0..MaxOctave

-----------------------------------------------------------------------------
(* Rust integer division and remainder truncate toward zero.               *)

TruncDiv(a, b) == IF a >= 0 THEN a \div b ELSE 0 - ((0 - a) \div b)

TruncRem(a, b) == a - b * TruncDiv(a, b)

-----------------------------------------------------------------------------
(* The enumerations.                                                       *)

IntervalQuality == {"Perfect", "Major", "Minor", "Augmented", "Diminished"}

SimpleInterval ==
    {"PerfectUnison", "DiminishedSecond", "AugmentedUnison", "MinorSecond",
     "MajorSecond", "DiminishedThird", "AugmentedSecond", "MinorThird",
     "MajorThird", "DiminishedFourth", "AugmentedThird", "PerfectFourth",
     "DiminishedFifth", "AugmentedFourth", "PerfectFifth", "DiminishedSixth",
     "AugmentedFifth", "MinorSixth", "MajorSixth", "DiminishedSeventh",
     "AugmentedSixth", "MinorSeventh", "MajorSeventh", "DiminishedOctave",
     "AugmentedSeventh", "PerfectOctave"}

\* the seven letters; Incongruent(Hertz) takes no part in the letter arithmetic
RawNote == {"C", "D", "E", "F", "G", "A", "B"}

NoteModifier == {"DoubleFlat", "Flat", "Natural", "Sharp", "DoubleSharp"}

ModifierPreference == {"Sharp", "Flat"}

\* the derived Ord of NoteModifier: the position of the variant in the enum
NoteModifier_cmp(a, b) ==
    LET ord(m) == CASE m = "DoubleFlat" -> 0
                    [] m = "Flat" -> 1
                    [] m = "Natural" -> 2
                    [] m = "Sharp" -> 3
                    [] m = "DoubleSharp" -> 4
    IN  IF ord(a) = ord(b) THEN "Equal"
        ELSE IF ord(a) < ord(b) THEN "Less" ELSE "Greater"

\* impl From<NoteModifier> for Semitone
Semitone_from_modifier(m) ==
    CASE m = "Sharp" -> 1
      [] m = "Flat" -> 0 - 1
      [] m = "Natural" -> 0
      [] m = "DoubleSharp" -> 2
      [] m = "DoubleFlat" -> 0 - 2

\* a preference that is Sharp whatever the modifier
ModifierPreference_from_AlwaysSharp(m) == "Sharp"

\* impl From<NoteModifier> for ModifierPreference
ModifierPreference_from(m) ==
    IF m \in {"Sharp", "DoubleSharp", "Natural"} THEN "Sharp" ELSE "Flat"

-----------------------------------------------------------------------------
(* RawNote adjacency: the neighbouring letter and the semitones to it.     *)

next_note(n) ==
    CASE n = "C" -> <<"D", 2>>
      [] n = "D" -> <<"E", 2>>
      [] n = "E" -> <<"F", 1>>
      [] n = "F" -> <<"G", 2>>
      [] n = "G" -> <<"A", 2>>
      [] n = "A" -> <<"B", 2>>
      [] n = "B" -> <<"C", 1>>

\* prev_note with a whole tone from F down to E
prev_note_WholeToneBelowF(n) ==
    CASE n = "C" -> <<"B", 1>>
      [] n = "D" -> <<"C", 2>>
      [] n = "E" -> <<"D", 2>>
      [] n = "F" -> <<"E", 2>>
      [] n = "G" -> <<"F", 2>>
      [] n = "A" -> <<"G", 2>>
      [] n = "B" -> <<"A", 2>>

prev_note(n) ==
    CASE n = "C" -> <<"B", 1>>
      [] n = "D" -> <<"C", 2>>
      [] n = "E" -> <<"D", 2>>
      [] n = "F" -> <<"E", 1>>
      [] n = "G" -> <<"F", 2>>
      [] n = "A" -> <<"G", 2>>
      [] n = "B" -> <<"A", 2>>

-----------------------------------------------------------------------------
(* SimpleInterval: semitones, number, quality, inverse.                    *)

semitones(i) ==
    CASE i \in {"PerfectUnison", "DiminishedSecond"} -> 0
      [] i \in {"MinorSecond", "AugmentedUnison"} -> 1
      [] i \in {"MajorSecond", "DiminishedThird"} -> 2
      [] i \in {"MinorThird", "AugmentedSecond"} -> 3
      [] i \in {"MajorThird", "DiminishedFourth"} -> 4
      [] i \in {"PerfectFourth", "AugmentedThird"} -> 5
      [] i \in {"AugmentedFourth", "DiminishedFifth"} -> 6
      [] i \in {"PerfectFifth", "DiminishedSixth"} -> 7
      [] i \in {"MinorSixth", "AugmentedFifth"} -> 8
      [] i \in {"MajorSixth", "DiminishedSeventh"} -> 9
      [] i \in {"MinorSeventh", "AugmentedSixth"} -> 10
      [] i \in {"MajorSeventh", "DiminishedOctave"} -> 11
      [] i \in {"PerfectOctave", "AugmentedSeventh"} -> 12

\* SimpleIntervalNumber as its discriminant, Unison = 1 .. Octave = 8
interval_number(i) ==
    CASE i \in {"PerfectUnison", "AugmentedUnison"} -> 1
      [] i \in {"DiminishedSecond", "MinorSecond", "MajorSecond", "AugmentedSecond"} -> 2
      [] i \in {"DiminishedThird", "MinorThird", "MajorThird", "AugmentedThird"} -> 3
      [] i \in {"DiminishedFourth", "PerfectFourth", "AugmentedFourth"} -> 4
      [] i \in {"DiminishedFifth", "PerfectFifth", "AugmentedFifth"} -> 5
      [] i \in {"DiminishedSixth", "MinorSixth", "MajorSixth", "AugmentedSixth"} -> 6
      [] i \in {"DiminishedSeventh", "MinorSeventh", "MajorSeventh", "AugmentedSeventh"} -> 7
      [] i \in {"DiminishedOctave", "PerfectOctave"} -> 8

quality(i) ==
    CASE i \in {"PerfectUnison", "PerfectFourth", "PerfectFifth", "PerfectOctave"}
            -> "Perfect"
      [] i \in {"MinorSecond", "MinorThird", "MinorSixth", "MinorSeventh"}
            -> "Minor"
      [] i \in {"MajorSecond", "MajorThird", "MajorSixth", "MajorSeventh"}
            -> "Major"
      [] i \in {"AugmentedUnison", "AugmentedSecond", "AugmentedThird",
                "AugmentedFourth", "AugmentedFifth", "AugmentedSixth",
                "AugmentedSeventh"}
            -> "Augmented"
      [] i \in {"DiminishedSecond", "DiminishedThird", "DiminishedFourth",
                "DiminishedFifth", "DiminishedSixth", "DiminishedSeventh",
                "DiminishedOctave"}
            -> "Diminished"

\* a slip in one row of the table: the augmented fourth inverts to itself
inverse_SelfInverseTritone(i) ==
    CASE i = "PerfectUnison" -> "PerfectOctave"
      [] i = "MinorSecond" -> "MajorSeventh"
      [] i = "MajorSecond" -> "MinorSeventh"
      [] i = "MinorThird" -> "MajorSixth"
      [] i = "MajorThird" -> "MinorSixth"
      [] i = "PerfectFourth" -> "PerfectFifth"
      [] i = "AugmentedFourth" -> "AugmentedFourth"
      [] i = "DiminishedFifth" -> "AugmentedFourth"
      [] i = "PerfectFifth" -> "PerfectFourth"
      [] i = "MinorSixth" -> "MajorThird"
      [] i = "MajorSixth" -> "MinorThird"
      [] i = "MinorSeventh" -> "MajorSecond"
      [] i = "MajorSeventh" -> "MinorSecond"
      [] i = "PerfectOctave" -> "PerfectUnison"
      [] i = "DiminishedSecond" -> "AugmentedSeventh"
      [] i = "AugmentedUnison" -> "DiminishedOctave"
      [] i = "DiminishedThird" -> "AugmentedSixth"
      [] i = "AugmentedSecond" -> "DiminishedSeventh"
      [] i = "DiminishedFourth" -> "AugmentedFifth"
      [] i = "AugmentedThird" -> "DiminishedSixth"
      [] i = "DiminishedSixth" -> "AugmentedThird"
      [] i = "AugmentedFifth" -> "DiminishedFourth"
      [] i = "DiminishedSeventh" -> "AugmentedSecond"
      [] i = "AugmentedSixth" -> "DiminishedThird"
      [] i = "DiminishedOctave" -> "AugmentedUnison"
      [] i = "AugmentedSeventh" -> "DiminishedSecond"

\* a slip in one row of the table: the octave inverts to itself
inverse_OctaveToItself(i) ==
    CASE i = "PerfectUnison" -> "PerfectOctave"
      [] i = "MinorSecond" -> "MajorSeventh"
      [] i = "MajorSecond" -> "MinorSeventh"
      [] i = "MinorThird" -> "MajorSixth"
      [] i = "MajorThird" -> "MinorSixth"
      [] i = "PerfectFourth" -> "PerfectFifth"
      [] i = "AugmentedFourth" -> "DiminishedFifth"
      [] i = "DiminishedFifth" -> "AugmentedFourth"
      [] i = "PerfectFifth" -> "PerfectFourth"
      [] i = "MinorSixth" -> "MajorThird"
      [] i = "MajorSixth" -> "MinorThird"
      [] i = "MinorSeventh" -> "MajorSecond"
      [] i = "MajorSeventh" -> "MinorSecond"
      [] i = "PerfectOctave" -> "PerfectOctave"
      [] i = "DiminishedSecond" -> "AugmentedSeventh"
      [] i = "AugmentedUnison" -> "DiminishedOctave"
      [] i = "DiminishedThird" -> "AugmentedSixth"
      [] i = "AugmentedSecond" -> "DiminishedSeventh"
      [] i = "DiminishedFourth" -> "AugmentedFifth"
      [] i = "AugmentedThird" -> "DiminishedSixth"
      [] i = "DiminishedSixth" -> "AugmentedThird"
      [] i = "AugmentedFifth" -> "DiminishedFourth"
      [] i = "DiminishedSeventh" -> "AugmentedSecond"
      [] i = "AugmentedSixth" -> "DiminishedThird"
      [] i = "DiminishedOctave" -> "AugmentedUnison"
      [] i = "AugmentedSeventh" -> "DiminishedSecond"

inverse(i) ==
    CASE i = "PerfectUnison" -> "PerfectOctave"
      [] i = "MinorSecond" -> "MajorSeventh"
      [] i = "MajorSecond" -> "MinorSeventh"
      [] i = "MinorThird" -> "MajorSixth"
      [] i = "MajorThird" -> "MinorSixth"
      [] i = "PerfectFourth" -> "PerfectFifth"
      [] i = "AugmentedFourth" -> "DiminishedFifth"
      [] i = "DiminishedFifth" -> "AugmentedFourth"
      [] i = "PerfectFifth" -> "PerfectFourth"
      [] i = "MinorSixth" -> "MajorThird"
      [] i = "MajorSixth" -> "MinorThird"
      [] i = "MinorSeventh" -> "MajorSecond"
      [] i = "MajorSeventh" -> "MinorSecond"
      [] i = "PerfectOctave" -> "PerfectUnison"
      [] i = "DiminishedSecond" -> "AugmentedSeventh"
      [] i = "AugmentedUnison" -> "DiminishedOctave"
      [] i = "DiminishedThird" -> "AugmentedSixth"
      [] i = "AugmentedSecond" -> "DiminishedSeventh"
      [] i = "DiminishedFourth" -> "AugmentedFifth"
      [] i = "AugmentedThird" -> "DiminishedSixth"
      [] i = "DiminishedSixth" -> "AugmentedThird"
      [] i = "AugmentedFifth" -> "DiminishedFourth"
      [] i = "DiminishedSeventh" -> "AugmentedSecond"
      [] i = "AugmentedSixth" -> "DiminishedThird"
      [] i = "DiminishedOctave" -> "AugmentedUnison"
      [] i = "AugmentedSeventh" -> "DiminishedSecond"

-----------------------------------------------------------------------------
(* SimpleIntervalFromSemitones::new and ::semitones.                       *)

\* the match of new() on remaining_semitones; any other value panics
interval_of_remaining(r) ==
    CASE r = 0 -> "PerfectUnison"
      [] r = 1 -> "MinorSecond"
      [] r = 2 -> "MajorSecond"
      [] r = 3 -> "MinorThird"
      [] r = 4 -> "MajorThird"
      [] r = 5 -> "PerfectFourth"
      [] r = 6 -> "DiminishedFifth"
      [] r = 7 -> "PerfectFifth"
      [] r = 8 -> "MinorSixth"
      [] r = 9 -> "MajorSixth"
      [] r = 10 -> "MinorSeventh"
      [] r = 11 -> "MajorSeventh"
      [] r = 12 -> "PerfectOctave"
      [] OTHER -> "panic"

\* new() without the correction of a negative remainder
SimpleIntervalFromSemitones_new_NoNegativeFix(s) ==
    IF s = 0 THEN [interval |-> "PerfectUnison", octave_overflow |-> 0]
    ELSE IF s = 12 THEN [interval |-> "PerfectOctave", octave_overflow |-> 0]
    ELSE [interval |-> interval_of_remaining(TruncRem(s, 12)),
          octave_overflow |-> TruncDiv(s, 12)]

\* new() without the special case of 12 semitones
SimpleIntervalFromSemitones_new_NoOctaveCase(s) ==
    IF s = 0 THEN [interval |-> "PerfectUnison", octave_overflow |-> 0]
    ELSE LET octaves0 == TruncDiv(s, 12)
             remaining0 == TruncRem(s, 12)
             negative == remaining0 < 0
             remaining_semitones == IF negative THEN remaining0 + 12 ELSE remaining0
             octaves == IF negative THEN octaves0 - 1 ELSE octaves0
         IN  [interval |-> interval_of_remaining(remaining_semitones),
              octave_overflow |-> octaves]

SimpleIntervalFromSemitones_new(s) ==
    IF s = 0 THEN [interval |-> "PerfectUnison", octave_overflow |-> 0]
    ELSE IF s = 12 THEN [interval |-> "PerfectOctave", octave_overflow |-> 0]
    ELSE LET octaves0 == TruncDiv(s, 12)
             remaining0 == TruncRem(s, 12)
             negative == remaining0 < 0
             remaining_semitones == IF negative THEN remaining0 + 12 ELSE remaining0
             octaves == IF negative THEN octaves0 - 1 ELSE octaves0
         IN  [interval |-> interval_of_remaining(remaining_semitones),
              octave_overflow |-> octaves]

\* SimpleInterval::from_semitones
from_semitones(s) == SimpleIntervalFromSemitones_new(s)

SimpleIntervalFromSemitones_semitones(r) ==
    semitones(r.interval) + r.octave_overflow * 12

\* SimpleIntervalFromSemitones::add_semitones
SimpleIntervalFromSemitones_add_semitones(self, k) ==
    LET current_octave_overflow == self.octave_overflow
        new_interval_semitones == semitones(self.interval) + k
        temp_new_result == SimpleIntervalFromSemitones_new(new_interval_semitones)
    IN  [interval |-> temp_new_result.interval,
         octave_overflow |-> current_octave_overflow + temp_new_result.octave_overflow]

\* SimpleInterval::add_semitones
SimpleInterval_add_semitones(i, k) ==
    SimpleIntervalFromSemitones_add_semitones(
        SimpleIntervalFromSemitones_new(semitones(i)), k)

-----------------------------------------------------------------------------
(* bias_simple_interval_quality: the per-quality lookup tables.            *)

bias_simple_interval_quality(input_interval, bias_quality) ==
    IF quality(input_interval) = bias_quality THEN input_interval
    ELSE CASE bias_quality = "Perfect" ->
                CASE input_interval = "DiminishedSecond" -> "PerfectUnison"
                  [] input_interval = "AugmentedThird" -> "PerfectFourth"
                  [] input_interval = "DiminishedSixth" -> "PerfectFifth"
                  [] input_interval = "AugmentedSeventh" -> "PerfectOctave"
                  [] OTHER -> input_interval
           [] bias_quality = "Major" ->
                CASE input_interval = "DiminishedThird" -> "MinorSecond"
                  [] input_interval = "DiminishedFourth" -> "MajorThird"
                  [] input_interval = "DiminishedSeventh" -> "MajorSixth"
                  [] input_interval = "DiminishedOctave" -> "MajorSeventh"
                  [] OTHER -> input_interval
           [] bias_quality = "Minor" ->
                CASE input_interval = "AugmentedUnison" -> "MinorSecond"
                  [] input_interval = "AugmentedSecond" -> "MinorThird"
                  [] input_interval = "AugmentedFifth" -> "MinorSixth"
                  [] input_interval = "AugmentedSixth" -> "MinorSeventh"
                  [] OTHER -> input_interval
           [] bias_quality = "Augmented" ->
                CASE input_interval = "MinorSecond" -> "AugmentedUnison"
                  [] input_interval = "MinorThird" -> "AugmentedSecond"
                  [] input_interval = "PerfectFourth" -> "AugmentedThird"
                  [] input_interval = "MinorSixth" -> "AugmentedFifth"
                  [] input_interval = "MinorSeventh" -> "AugmentedSixth"
                  [] input_interval = "PerfectOctave" -> "AugmentedSeventh"
                  [] OTHER -> input_interval
           [] bias_quality = "Diminished" ->
                CASE input_interval = "PerfectUnison" -> "DiminishedSecond"
                  [] input_interval = "MajorSecond" -> "DiminishedThird"
                  [] input_interval = "MajorThird" -> "DiminishedFourth"
                  [] input_interval = "PerfectFifth" -> "DiminishedSixth"
                  [] input_interval = "MajorSixth" -> "DiminishedSeventh"
                  [] input_interval = "MajorSeventh" -> "DiminishedOctave"
                  [] OTHER -> input_interval

\* impl Add<SimpleInterval> for SimpleInterval
SimpleInterval_add(self, rhs) ==
    bias_simple_interval_quality(
        SimpleInterval_add_semitones(self, semitones(rhs)).interval, quality(self))

-----------------------------------------------------------------------------
(* AbstractNote: a letter and a modifier, no octave.                       *)

AbstractNote == [raw_note : RawNote, modifier : NoteModifier]

\* the walk "while current_note != C" of interval_from_c and of
\* to_semitones_from_c0: the semitones from the letter down to C
RECURSIVE semitones_from_c(_)
semitones_from_c(letter) ==
    IF letter = "C" THEN 0
    ELSE LET p == prev_note(letter) IN p[2] + semitones_from_c(p[1])

interval_from_c(a) ==
    LET modifier_semitone_adjustment ==
            CASE a.modifier = "Sharp" -> 1
              [] a.modifier = "Flat" -> 0 - 1
              [] a.modifier = "Natural" -> 0
              [] a.modifier = "DoubleSharp" -> 2
              [] a.modifier = "DoubleFlat" -> 0 - 2
    IN  from_semitones(semitones_from_c(a.raw_note) + modifier_semitone_adjustment).interval

\* the loop "while current_semitones > 0" of from_interval_from_c; an
\* iteration that changes nothing would repeat for ever
RECURSIVE from_interval_from_c_loop(_, _, _, _)
from_interval_from_c_loop(current_semitones, note, modifier, modifier_preference) ==
    IF ~(current_semitones > 0) THEN [raw_note |-> note, modifier |-> modifier]
    ELSE LET n == next_note(note) IN
         IF current_semitones >= n[2]
         THEN from_interval_from_c_loop(current_semitones - n[2], n[1], modifier,
                                        modifier_preference)
         ELSE IF current_semitones = 1
         THEN IF modifier_preference = "Sharp"
              THEN from_interval_from_c_loop(current_semitones - 1, note, "Sharp",
                                             modifier_preference)
              ELSE from_interval_from_c_loop(current_semitones - 1, n[1], "Flat",
                                             modifier_preference)
         ELSE [raw_note |-> "diverges", modifier |-> modifier]

from_interval_from_c(interval, modifier_preference) ==
    from_interval_from_c_loop(semitones(interval), "C", "Natural", modifier_preference)

-----------------------------------------------------------------------------
(* bias_abstract_note_to_enharmonic_equivalent: one iteration of each of   *)
(* its two loops, and the loop.  An iteration either breaks with a value   *)
(* or moves current_note and semitone_acc.                                 *)

\* the backward loop breaking with the letter it stands on, not the previous one
bias_less_iteration_BreaksAtCurrent(note, bias, cur, acc) ==
    LET p == prev_note(cur)
        semitones_to_prev_with_modifier_after_existing_modifier ==
            p[2] + Semitone_from_modifier(note.modifier)
                 - Semitone_from_modifier(bias) + acc
    IN  IF semitones_to_prev_with_modifier_after_existing_modifier = 0
        THEN [brk |-> TRUE, value |-> [raw_note |-> cur, modifier |-> bias],
              current_note |-> cur, semitone_acc |-> acc]
        ELSE IF semitones_to_prev_with_modifier_after_existing_modifier >= 0
        THEN [brk |-> TRUE, value |-> note,
              current_note |-> cur, semitone_acc |-> acc]
        ELSE [brk |-> FALSE, value |-> note,
              current_note |-> p[1], semitone_acc |-> acc + p[2]]

bias_less_iteration(note, bias, cur, acc) ==
    LET p == prev_note(cur)
        semitones_to_prev_with_modifier_after_existing_modifier ==
            p[2] + Semitone_from_modifier(note.modifier)
                 - Semitone_from_modifier(bias) + acc
    IN  IF semitones_to_prev_with_modifier_after_existing_modifier = 0
        THEN [brk |-> TRUE, value |-> [raw_note |-> p[1], modifier |-> bias],
              current_note |-> cur, semitone_acc |-> acc]
        ELSE IF semitones_to_prev_with_modifier_after_existing_modifier >= 0
        THEN [brk |-> TRUE, value |-> note,
              current_note |-> cur, semitone_acc |-> acc]
        ELSE [brk |-> FALSE, value |-> note,
              current_note |-> p[1], semitone_acc |-> acc + p[2]]

bias_greater_iteration(note, bias, cur, acc) ==
    LET n == next_note(cur)
        semitones_to_next_with_modifier_after_existing_modifier ==
            n[2] - Semitone_from_modifier(note.modifier)
                 + Semitone_from_modifier(bias) - acc
    IN  IF semitones_to_next_with_modifier_after_existing_modifier = 0
        THEN [brk |-> TRUE, value |-> [raw_note |-> n[1], modifier |-> bias],
              current_note |-> cur, semitone_acc |-> acc]
        ELSE IF semitones_to_next_with_modifier_after_existing_modifier <= 0
        THEN [brk |-> TRUE, value |-> note,
              current_note |-> cur, semitone_acc |-> acc]
        ELSE [brk |-> FALSE, value |-> note,
              current_note |-> n[1], semitone_acc |-> acc + n[2]]

bias_iteration(note, bias, cur, acc) ==
    IF NoteModifier_cmp(note.modifier, bias) = "Less"
    THEN bias_less_iteration(note, bias, cur, acc)
    ELSE bias_greater_iteration(note, bias, cur, acc)

RECURSIVE bias_loop(_, _, _, _)
bias_loop(note, bias, cur, acc) ==
    LET r == bias_iteration(note, bias, cur, acc)
    IN  IF r.brk THEN r.value
        ELSE bias_loop(note, bias, r.current_note, r.semitone_acc)

\* a biasing that hands the note back as it came
bias_abstract_note_to_enharmonic_equivalent_Unbiased(note, bias) == note

bias_abstract_note_to_enharmonic_equivalent(note, bias) ==
    IF NoteModifier_cmp(note.modifier, bias) = "Equal" THEN note
    ELSE bias_loop(note, bias, note.raw_note, 0)

\* add_semitones starting from the letter alone, the modifier forgotten
AbstractNote_add_semitones_FromLetter(self, k) ==
    IF k = 0 THEN self
    ELSE LET new_interval ==
                 SimpleInterval_add_semitones(
                     from_semitones(semitones_from_c(self.raw_note)).interval, k).interval
         IN  bias_abstract_note_to_enharmonic_equivalent(
                 from_interval_from_c(new_interval,
                                      ModifierPreference_from(self.modifier)),
                 self.modifier)

\* AbstractNote::add_semitones
AbstractNote_add_semitones(self, k) ==
    IF k = 0 THEN self
    ELSE LET new_interval ==
                 SimpleInterval_add_semitones(interval_from_c(self), k).interval
         IN  bias_abstract_note_to_enharmonic_equivalent(
                 from_interval_from_c(new_interval,
                                      ModifierPreference_from(self.modifier)),
                 self.modifier)

\* AbstractNote::add_interval, impl Add<SimpleInterval> for AbstractNote
AbstractNote_add_interval(self, interval) ==
    AbstractNote_add_semitones(self, semitones(interval))

-----------------------------------------------------------------------------
(* Note: an AbstractNote at an octave.                                     *)

Note_new(raw_note, octave, modifier) ==
    [abstract_note |-> [raw_note |-> raw_note, modifier |-> modifier],
     octave |-> octave]

NoteInputs ==
    {Note_new(l, o, m) : l \in RawNote, o \in OctaveInputs, m \in NoteModifier}

\* the loop "while current_octave < self.octave { current_octave += 1 }"
RECURSIVE count_octaves(_, _)
count_octaves(current_octave, octave) ==
    IF current_octave < octave THEN count_octaves(current_octave + 1, octave)
    ELSE current_octave

to_semitones_from_c0(n) ==
    LET current_octave == count_octaves(0, n.octave)
        semitones_before_modified ==
            (current_octave * 12) + semitones_from_c(n.abstract_note.raw_note)
    IN  semitones_before_modified + Semitone_from_modifier(n.abstract_note.modifier)

from_semitones_from_c0(semitones_from_low_c, modifier_preference) ==
    LET r == from_semitones(semitones_from_low_c) IN
    IF r.interval = "PerfectOctave"
    THEN LET a == from_interval_from_c("PerfectUnison", modifier_preference)
         IN  Note_new(a.raw_note, r.octave_overflow + 1, a.modifier)
    ELSE LET a == from_interval_from_c(r.interval, modifier_preference)
         IN  Note_new(a.raw_note, r.octave_overflow, a.modifier)

\* add_semitones without the check of a negative total
Note_add_semitones_NoRangeCheck(self, k) ==
    [panicked |-> FALSE,
     note |-> from_semitones_from_c0(to_semitones_from_c0(self) + k,
                 ModifierPreference_from(self.abstract_note.modifier))]

\* Note::add_semitones; the panic is the result [panicked |-> TRUE]
Note_add_semitones(self, k) ==
    LET new_semitones == to_semitones_from_c0(self) + k IN
    IF new_semitones < 0 THEN [panicked |-> TRUE]
    ELSE [panicked |-> FALSE,
          note |-> from_semitones_from_c0(new_semitones,
                      ModifierPreference_from(self.abstract_note.modifier))]


\* subtraction that adds the right operand's semitones
SimpleInterval_sub_AddsRhs(self, rhs) ==
    bias_simple_interval_quality(
        SimpleInterval_add_semitones(self, semitones(rhs)).interval, quality(self))

\* impl Sub<SimpleInterval> for SimpleInterval
SimpleInterval_sub(self, rhs) ==
    bias_simple_interval_quality(
        SimpleInterval_add_semitones(self, 0 - semitones(rhs)).interval,
        quality(self))


-----------------------------------------------------------------------------
(* Chord: a list of notes, and its inversions.                             *)

MaxChordLen == 3

MaxInversion == 4

Chord_new(notes) == [notes |-> notes]

\* the notes of the chords of the calls: C4, E4, G4 and two notes of other
\* octaves and modifiers
ChordNoteInputs ==
    {Note_new(l, 4, "Natural") : l \in {"C", "E", "G"}}
        \cup {Note_new("E", 3, "Flat"), Note_new("G", 5, "Sharp")}

\* the chords of the calls, the empty chord included
ChordInputs ==
    {Chord_new(s) : s \in UNION {[1..k -> ChordNoteInputs] : k \in 0..MaxChordLen}}

InversionInputs == (0 - MaxInversion)..MaxInversion

\* a round of the loop that moves notes up, with the octave left as it was
invert_up_KeepsOctave(notes) ==
    LET note == notes[1]
    IN  Append(Tail(notes), note)

\* one round of "while inversion > 0"
invert_up(notes) ==
    LET note == notes[1]
        moved == Note_new(note.abstract_note.raw_note, note.octave + 1,
                          note.abstract_note.modifier)
    IN  Append(Tail(notes), moved)

\* a round of the loop that moves notes down, lowering by two octaves
invert_down_TwoOctaves(notes) ==
    LET note == notes[Len(notes)]
        moved == Note_new(note.abstract_note.raw_note, note.octave - 2,
                          note.abstract_note.modifier)
    IN  <<moved>> \o SubSeq(notes, 1, Len(notes) - 1)

\* one round of "while inversion < 0"
invert_down(notes) ==
    LET note == notes[Len(notes)]
        moved == Note_new(note.abstract_note.raw_note, note.octave - 1,
                          note.abstract_note.modifier)
    IN  <<moved>> \o SubSeq(notes, 1, Len(notes) - 1)

\* the two loops; Vec::remove on an empty list panics, and so does
\* notes.len() - 1
RECURSIVE apply_inversion_loop(_, _)
apply_inversion_loop(notes, inversion) ==
    IF inversion = 0 THEN [panicked |-> FALSE, notes |-> notes]
    ELSE IF Len(notes) = 0 THEN [panicked |-> TRUE]
    ELSE IF inversion < 0
         THEN apply_inversion_loop(invert_down(notes), inversion + 1)
         ELSE apply_inversion_loop(invert_up(notes), inversion - 1)

\* Chord::apply_inversion; the panic is the result [panicked |-> TRUE]
apply_inversion(self, inversion) ==
    LET r == apply_inversion_loop(self.notes, inversion) IN
    IF r.panicked THEN [panicked |-> TRUE]
    ELSE [panicked |-> FALSE, chord |-> Chord_new(r.notes)]


-----------------------------------------------------------------------------
(* ChordQuality: the notes of a chord of a quality on a root.              *)

ChordQuality ==
    {"Major", "Major6th", "Major7th", "Major9th", "Major11th", "Major13th",
     "Minor", "Minor6th", "Minor7th", "MinorMajor7th", "Minor9th", "Minor11th",
     "Minor13th", "MinorMajor7thFlat13th", "Augmented", "Augmented7th",
     "AugmentedMajor7th", "Diminished", "Diminished7th", "Suspended2nd",
     "Suspended4th"}

\* the arguments of the add_semitones calls of each arm of to_notes, in
\* the order of the returned list
to_notes_semitones(q) ==
    CASE q = "Major" -> <<4, 7>>
      [] q = "Major6th" -> <<4, 7, 9>>
      [] q = "Major7th" -> <<4, 7, 11>>
      [] q = "Major9th" -> <<4, 7, 11, 14>>
      [] q = "Major11th" -> <<4, 7, 11, 14, 17>>
      [] q = "Major13th" -> <<4, 7, 11, 14, 17, 21>>
      [] q = "Minor" -> <<3, 7>>
      [] q = "Minor6th" -> <<3, 7, 9>>
      [] q = "Minor7th" -> <<3, 7, 10>>
      [] q = "MinorMajor7th" -> <<3, 7, 11>>
      [] q = "Minor9th" -> <<3, 7, 10, 14>>
      [] q = "Minor11th" -> <<3, 7, 10, 14, 17>>
      [] q = "Minor13th" -> <<3, 7, 10, 14, 17, 21>>
      [] q = "MinorMajor7thFlat13th" -> <<3, 7, 11, 20>>
      [] q = "Augmented" -> <<4, 8>>
      [] q = "Augmented7th" -> <<4, 8, 10>>
      [] q = "AugmentedMajor7th" -> <<4, 8, 11>>
      [] q = "Diminished" -> <<3, 6>>
      [] q = "Diminished7th" -> <<3, 6, 9>>
      [] q = "Suspended2nd" -> <<2, 7>>
      [] q = "Suspended4th" -> <<5, 7>>

\* to_notes that leaves the root out of the list
to_notes_WithoutRoot(q, root) ==
    LET ks == to_notes_semitones(q)
        added == [i \in 1..Len(ks) |-> Note_add_semitones(root, ks[i])]
    IN  IF \E i \in 1..Len(ks) : added[i].panicked THEN [panicked |-> TRUE]
        ELSE [panicked |-> FALSE,
              notes |-> [i \in 1..Len(ks) |-> added[i].note]]

\* ChordQuality::to_notes; a panic of add_semitones is [panicked |-> TRUE]
to_notes(q, root) ==
    LET ks == to_notes_semitones(q)
        added == [i \in 1..Len(ks) |-> Note_add_semitones(root, ks[i])]
    IN  IF \E i \in 1..Len(ks) : added[i].panicked THEN [panicked |-> TRUE]
        ELSE [panicked |-> FALSE,
              notes |-> <<root>> \o [i \in 1..Len(ks) |-> added[i].note]]

\* ChordQuality::to_chord
to_chord(q, root) ==
    LET r == to_notes(q, root) IN
    IF r.panicked THEN [panicked |-> TRUE]
    ELSE [panicked |-> FALSE, chord |-> Chord_new(r.notes)]

\* the roots of the calls: the notes of the low octaves and middle C
RootInputs == NoteInputs \cup {Note_new("C", 4, "Natural")}


-----------------------------------------------------------------------------
(* ScaleMode, ScaleDegree and the iterator over the notes of a scale.      *)

\* Option<T>
None == [some |-> FALSE]

Some(x) == [some |-> TRUE, value |-> x]

MaxIters == 2

MaxNextCalls == 10

ScaleMode ==
    {"Ionian", "Dorian", "Phrygian", "Lydian", "Mixolydian", "Aeolian", "Locrian"}

\* the variants of ScaleDegree in the order of their declaration
ScaleDegreeOrder ==
    <<"First", "Second", "Third", "Fourth", "Fifth", "Sixth", "Seventh", "Octave">>

\* the table of Ionian used for every mode
interval_at_degree_IonianOnly(mode, degree) ==
    LET row == <<"PerfectUnison", "MajorSecond", "MajorThird", "PerfectFourth",
                 "PerfectFifth", "MajorSixth", "MajorSeventh", "PerfectOctave">>
        col == CHOOSE i \in 1..Len(ScaleDegreeOrder) : ScaleDegreeOrder[i] = degree
    IN  row[col]

\* the seven tables, one row per mode, one column per degree
interval_at_degree(mode, degree) ==
    LET row ==
          CASE mode = "Ionian" ->
                 <<"PerfectUnison", "MajorSecond", "MajorThird", "PerfectFourth",
                   "PerfectFifth", "MajorSixth", "MajorSeventh", "PerfectOctave">>
            [] mode = "Dorian" ->
                 <<"PerfectUnison", "MajorSecond", "MinorThird", "PerfectFourth",
                   "PerfectFifth", "MajorSixth", "MinorSeventh", "PerfectOctave">>
            [] mode = "Phrygian" ->
                 <<"PerfectUnison", "MinorSecond", "MinorThird", "PerfectFourth",
                   "PerfectFifth", "MinorSixth", "MinorSeventh", "PerfectOctave">>
            [] mode = "Lydian" ->
                 <<"PerfectUnison", "MajorSecond", "MajorThird", "AugmentedFourth",
                   "PerfectFifth", "MajorSixth", "MajorSeventh", "PerfectOctave">>
            [] mode = "Mixolydian" ->
                 <<"PerfectUnison", "MajorSecond", "MajorThird", "PerfectFourth",
                   "PerfectFifth", "MajorSixth", "MinorSeventh", "PerfectOctave">>
            [] mode = "Aeolian" ->
                 <<"PerfectUnison", "MajorSecond", "MinorThird", "PerfectFourth",
                   "PerfectFifth", "MinorSixth", "MinorSeventh", "PerfectOctave">>
            [] mode = "Locrian" ->
                 <<"PerfectUnison", "MinorSecond", "MinorThird", "PerfectFourth",
                   "DiminishedFifth", "MinorSixth", "MinorSeventh", "PerfectOctave">>
        col == CHOOSE i \in 1..Len(ScaleDegreeOrder) : ScaleDegreeOrder[i] = degree
    IN  row[col]

note_at_degree(mode, root, degree) ==
    AbstractNote_add_interval(root, interval_at_degree(mode, degree))

\* ScaleDegree::iter(): the derived iterator, before its first variant
ScaleDegree_iter == [idx |-> 0]

\* an iterator that starts over after the last variant
ScaleDegreeIter_next_StartsOver(it) ==
    IF it.idx + 1 > Len(ScaleDegreeOrder)
    THEN [item |-> Some(ScaleDegreeOrder[1]), iter |-> [idx |-> 1]]
    ELSE [item |-> Some(ScaleDegreeOrder[it.idx + 1]), iter |-> [idx |-> it.idx + 1]]

\* ScaleDegreeIter::next: the next variant, None once they are used up
ScaleDegreeIter_next(it) ==
    IF it.idx + 1 > Len(ScaleDegreeOrder)
    THEN [item |-> None, iter |-> [idx |-> Len(ScaleDegreeOrder)]]
    ELSE [item |-> Some(ScaleDegreeOrder[it.idx + 1]), iter |-> [idx |-> it.idx + 1]]

\* the roots of the iterators: the natural notes, F sharp and B flat
ScaleRootInputs ==
    {[raw_note |-> l, modifier |-> "Natural"] : l \in RawNote}
        \cup {[raw_note |-> "F", modifier |-> "Sharp"],
              [raw_note |-> "B", modifier |-> "Flat"]}

ScaleNoteIter_new(root, mode) ==
    [root |-> root, mode |-> mode, current_degree |-> ScaleDegree_iter]

\* ScaleNoteIter::next: the item returned and the iterator afterwards
ScaleNoteIter_next(self) ==
    LET d == ScaleDegreeIter_next(self.current_degree)
        after == [self EXCEPT !.current_degree = d.iter]
    IN  IF ~d.item.some THEN [item |-> None, self |-> after]
        ELSE [item |-> Some(AbstractNote_add_interval(self.root,
                                interval_at_degree(self.mode, d.item.value))),
              self |-> after]


-----------------------------------------------------------------------------
(* AbstractNote::try_from: a string is a sequence of characters.           *)

MaxStrLen == 4

\* the characters of the inputs: a space, letters, modifier signs and a
\* character of two bytes
CharInputs == {" ", "C", "b", "H", "#", "x", "é"}

StringInputs == UNION {[1..k -> CharInputs] : k \in 0..MaxStrLen}

\* the length of a character in bytes (UTF-8)
len_utf8(c) == IF c = "é" THEN 2 ELSE 1

\* str::len: the length in bytes
RECURSIVE str_len(_)
str_len(s) == IF Len(s) = 0 THEN 0 ELSE len_utf8(Head(s)) + str_len(Tail(s))

RECURSIVE trim_start(_)
trim_start(s) ==
    IF Len(s) > 0 /\ Head(s) = " " THEN trim_start(Tail(s)) ELSE s

RECURSIVE trim_end(_)
trim_end(s) ==
    IF Len(s) > 0 /\ s[Len(s)] = " " THEN trim_end(SubSeq(s, 1, Len(s) - 1)) ELSE s

\* str::trim
trim(s) == trim_end(trim_start(s))

to_ascii_uppercase(c) == IF c = "b" THEN "B" ELSE IF c = "x" THEN "X" ELSE c

\* str::split_at(1) panics past the end and inside a character
split_at_1_panics(s) == str_len(s) < 1 \/ len_utf8(Head(s)) > 1

Ok(x) == [kind |-> "Ok", value |-> x]

Err(e) == [kind |-> "Err", error |-> e]

\* impl TryFrom<String> for AbstractNote; a panic is [kind |-> "panic"]
try_from(value) ==
    IF Len(value) = 0 THEN Err("EmptyInput")
    ELSE LET trimmed == trim(value) IN
         IF str_len(trimmed) > 3 THEN Err("InputTooLong")
         ELSE IF split_at_1_panics(trimmed) THEN [kind |-> "panic"]
         ELSE LET first == to_ascii_uppercase(Head(trimmed))
                  rest == Tail(trimmed)
              IN  IF first \notin {"A", "B", "C", "D", "E", "F", "G"}
                  THEN Err("InvalidNote")
                  ELSE IF rest = <<>> THEN
                           Ok([raw_note |-> first, modifier |-> "Natural"])
                  ELSE IF rest = <<"#">> THEN
                           Ok([raw_note |-> first, modifier |-> "Sharp"])
                  ELSE IF rest = <<"b">> THEN
                           Ok([raw_note |-> first, modifier |-> "Flat"])
                  ELSE IF rest = <<"#", "#">> \/ rest = <<"x">> THEN
                           Ok([raw_note |-> first, modifier |-> "DoubleSharp"])
                  ELSE IF rest = <<"b", "b">> THEN
                           Ok([raw_note |-> first, modifier |-> "DoubleFlat"])
                  ELSE Err("InvalidModifier")


-----------------------------------------------------------------------------
(* ChordContext: a root, a quality and the memoized chord of the two.      *)

ChordContext_new(root, chord_quality) ==
    [root |-> root, quality |-> chord_quality, calculated_chord |-> None]

\* set_root that forgets to drop the memoized chord
ChordContext_set_root_KeepsChord(self, root) ==
    [self EXCEPT !.root = root]

ChordContext_set_root(self, root) ==
    [self EXCEPT !.root = root, !.calculated_chord = None]

ChordContext_set_quality(self, chord_quality) ==
    [self EXCEPT !.quality = chord_quality, !.calculated_chord = None]

\* ChordContext::_calculate_chord
calculate_chord(self) == to_chord(self.quality, self.root)

\* get_calculated_chord: the context afterwards and the chord returned; a
\* panic of to_chord leaves the context as it was
ChordContext_get_calculated_chord(self) ==
    IF self.calculated_chord.some
    THEN [panicked |-> FALSE, self |-> self, value |-> self.calculated_chord.value]
    ELSE LET chord == calculate_chord(self) IN
         IF chord.panicked THEN [panicked |-> TRUE, self |-> self]
         ELSE [panicked |-> FALSE,
               self |-> [self EXCEPT !.calculated_chord = Some(chord.chord)],
               value |-> chord.chord]


-----------------------------------------------------------------------------
(* CompoundInterval: the named intervals above an octave, and stacks.      *)

MaxCompoundSemitones == 50

CompoundSemitoneInputs == SemitoneInputs \cup (0..MaxCompoundSemitones)

\* the variants of SimpleInterval in the order of their declaration, which
\* is the order of the derived Ord
SimpleIntervalOrder ==
    <<"PerfectUnison", "DiminishedSecond", "AugmentedUnison", "MinorSecond",
      "MajorSecond", "DiminishedThird", "AugmentedSecond", "MinorThird",
      "MajorThird", "DiminishedFourth", "AugmentedThird", "PerfectFourth",
      "DiminishedFifth", "AugmentedFourth", "PerfectFifth", "DiminishedSixth",
      "AugmentedFifth", "MinorSixth", "MajorSixth", "DiminishedSeventh",
      "AugmentedSixth", "MinorSeventh", "MajorSeventh", "DiminishedOctave",
      "AugmentedSeventh", "PerfectOctave">>

SimpleInterval_ord(i) ==
    CHOOSE k \in 1..Len(SimpleIntervalOrder) : SimpleIntervalOrder[k] = i

\* Vec::sort: smallest first
RECURSIVE sort_insert(_, _)
sort_insert(sorted, i) ==
    IF Len(sorted) = 0 THEN <<i>>
    ELSE IF SimpleInterval_ord(i) < SimpleInterval_ord(Head(sorted))
         THEN <<i>> \o sorted
         ELSE <<Head(sorted)>> \o sort_insert(Tail(sorted), i)

RECURSIVE sort(_)
sort(stack) ==
    IF Len(stack) = 0 THEN <<>>
    ELSE sort_insert(sort(SubSeq(stack, 1, Len(stack) - 1)), stack[Len(stack)])

\* Vec::reverse
reverse(stack) == [k \in 1..Len(stack) |-> stack[Len(stack) + 1 - k]]

\* a stack left sorted smallest first
OtherCompoundInterval_new_NoReverse(interval_stack) ==
    [interval_stack |-> sort(interval_stack)]

OtherCompoundInterval_new(interval_stack) ==
    [interval_stack |-> reverse(sort(interval_stack))]

\* impl From<SimpleIntervalFromSemitones> for OtherCompoundInterval
OtherCompoundInterval_from(interval_from_semitones) ==
    LET octave_span == interval_from_semitones.octave_overflow
        octaves == IF octave_span > 0
                   THEN [k \in 1..octave_span |-> "PerfectOctave"]
                   ELSE <<>>
    IN  OtherCompoundInterval_new(Append(octaves, interval_from_semitones.interval))

\* the named variants with their semitones
CompoundInterval_named ==
    [DiminishedNinth |-> 13, MinorNinth |-> 13, AugmentedOctave |-> 13,
     MajorNinth |-> 14, DiminishedTenth |-> 14,
     MinorTenth |-> 15, AugmentedNinth |-> 15,
     MajorTenth |-> 16, DiminishedEleventh |-> 16,
     PerfectEleventh |-> 17, AugmentedTenth |-> 17,
     DiminishedTweltfth |-> 18, AuthmentedEleventh |-> 18,
     PerfectTwelfth |-> 19,
     DiminishedThirteenth |-> 20, MinorThirteenth |-> 20, AugmentedTwelfth |-> 20,
     MajorThirteenth |-> 21,
     DiminishedFourteenth |-> 22, MinorFourteenth |-> 22, AugmentedThirteenth |-> 22,
     MajorFourteenth |-> 23,
     DiminishedFifteenth |-> 24, PerfectFifteenth |-> 24, AugmentedFourteenth |-> 24,
     AugmentedFifteenth |-> 25]

\* the fold of semitones() over a stack
RECURSIVE fold_semitones(_)
fold_semitones(stack) ==
    IF Len(stack) = 0 THEN 0
    ELSE semitones(Head(stack)) + fold_semitones(Tail(stack))

\* CompoundInterval::semitones
CompoundInterval_semitones(self) ==
    IF self.variant = "Other" THEN fold_semitones(self.other.interval_stack)
    ELSE CompoundInterval_named[self.variant]

\* CompoundInterval::from_semitones
CompoundInterval_from_semitones(s) ==
    CASE s = 13 -> [variant |-> "MinorNinth"]
      [] s = 14 -> [variant |-> "MajorNinth"]
      [] s = 15 -> [variant |-> "MinorTenth"]
      [] s = 16 -> [variant |-> "MajorTenth"]
      [] s = 17 -> [variant |-> "PerfectEleventh"]
      [] s = 18 -> [variant |-> "DiminishedTweltfth"]
      [] s = 19 -> [variant |-> "PerfectTwelfth"]
      [] s = 20 -> [variant |-> "MinorThirteenth"]
      [] s = 21 -> [variant |-> "MajorThirteenth"]
      [] s = 22 -> [variant |-> "MinorFourteenth"]
      [] s = 23 -> [variant |-> "MajorFourteenth"]
      [] s = 24 -> [variant |-> "PerfectFifteenth"]
      [] s = 25 -> [variant |-> "AugmentedFifteenth"]
      [] OTHER -> [variant |-> "Other",
                   other |-> OtherCompoundInterval_from(from_semitones(s))]


\* the notes of the calls of to_semitones_from_c0: negative octaves too,
\* and the octave 4 of the tests
SignedNoteInputs ==
    {Note_new(l, o, m) : l \in RawNote,
                         o \in ((0 - MaxOctave)..MaxOctave) \cup {4},
                         m \in NoteModifier}


\* CompoundInterval::get_simple_interval
CompoundInterval_get_simple_interval(self) ==
    IF self.variant = "Other"
    THEN self.other.interval_stack[Len(self.other.interval_stack)]
    ELSE [DiminishedNinth |-> "PerfectUnison", MinorNinth |-> "MinorSecond",
          AugmentedOctave |-> "AugmentedUnison", MajorNinth |-> "MajorSecond",
          DiminishedTenth |-> "DiminishedThird", MinorTenth |-> "MinorThird",
          AugmentedNinth |-> "AugmentedSecond", MajorTenth |-> "MajorThird",
          DiminishedEleventh |-> "DiminishedFourth",
          PerfectEleventh |-> "PerfectFourth", AugmentedTenth |-> "AugmentedThird",
          DiminishedTweltfth |-> "DiminishedFifth",
          AuthmentedEleventh |-> "AugmentedFourth",
          PerfectTwelfth |-> "PerfectFifth",
          DiminishedThirteenth |-> "DiminishedSixth",
          MinorThirteenth |-> "MinorSixth", AugmentedTwelfth |-> "AugmentedFifth",
          MajorThirteenth |-> "MajorSixth",
          DiminishedFourteenth |-> "DiminishedSeventh",
          MinorFourteenth |-> "MinorSeventh",
          AugmentedThirteenth |-> "AugmentedSixth",
          MajorFourteenth |-> "MajorSeventh",
          DiminishedFifteenth |-> "DiminishedOctave",
          PerfectFifteenth |-> "PerfectOctave",
          AugmentedFourteenth |-> "AugmentedSeventh",
          AugmentedFifteenth |-> "AugmentedUnison"][self.variant]


-----------------------------------------------------------------------------
(* ChordBuilder.                                                           *)

MaxAdditions == 2

\* the lists of notes added to a builder, in the order of the add_note calls
AdditionInputs == UNION {[1..k -> ChordNoteInputs] : k \in 0..MaxAdditions}

\* ChordBuilder::new
ChordBuilder_new(root) == [root |-> root, quality |-> None, additions |-> <<>>]

\* ChordBuilder::quality
ChordBuilder_quality(self, chord_quality) ==
    [self EXCEPT !.quality = Some(chord_quality)]

\* ChordBuilder::add_note
ChordBuilder_add_note(self, note) ==
    [self EXCEPT !.additions = Append(@, note)]

\* the add_note calls of a list of notes, first to last
RECURSIVE ChordBuilder_add_notes(_, _)
ChordBuilder_add_notes(self, added) ==
    IF Len(added) = 0 THEN self
    ELSE ChordBuilder_add_notes(ChordBuilder_add_note(self, Head(added)),
                                Tail(added))

\* ChordBuilder::build
ChordBuilder_build(self) ==
    LET notes == <<self.root>>
        extended == IF self.quality.some
                    THEN notes \o to_notes(self.quality.value, self.root).notes
                    ELSE notes
    IN Chord_new(extended \o self.additions)

-----------------------------------------------------------------------------
(* The calls.                                                              *)

NoArg == [none |-> TRUE]

\* a behaviour is one call: the calls start from the initial state
Idle == op = "init"

\* the calls of the pure functions touch no object
ObjectsIdle == UNCHANGED <<scale_iters, yielded, chord_context>>

\* a call other than the biasing of a note leaves the loop's locals alone
LoopIdle == UNCHANGED <<pc, current_note, semitone_acc>> /\ ObjectsIdle

Init ==
    /\ op = "init"
    /\ arg = NoArg
    /\ ret = NoArg
    /\ pc = "done"
    /\ current_note = "C"
    /\ semitone_acc = 0
    /\ scale_iters = <<>>
    /\ yielded = <<>>
    /\ chord_context = None

Call_new ==
    /\ Idle
    /\ \E s \in SemitoneInputs :
        /\ op' = "SimpleIntervalFromSemitones::new"
        /\ arg' = [semitones |-> s]
        /\ ret' = SimpleIntervalFromSemitones_new(s)
        /\ LoopIdle

Call_inverse ==
    /\ Idle
    /\ \E x \in SimpleInterval :
        /\ op' = "SimpleInterval::inverse"
        /\ arg' = [interval |-> x]
        /\ ret' = inverse(x)
        /\ LoopIdle

Call_Note_add_semitones ==
    /\ Idle
    /\ \E n \in NoteInputs, k \in SemitoneInputs :
        /\ op' = "Note::add_semitones"
        /\ arg' = [note |-> n, semitones |-> k]
        /\ ret' = Note_add_semitones(n, k)
        /\ LoopIdle

\* Note::from_semitones_from_c0 applied to the semitone value of a note
Call_from_semitones_from_c0 ==
    /\ Idle
    /\ \E n \in NoteInputs, p \in ModifierPreference :
        /\ op' = "Note::from_semitones_from_c0"
        /\ arg' = [note |-> n, modifier_preference |-> p,
                   semitones_from_low_c |-> to_semitones_from_c0(n)]
        /\ ret' = from_semitones_from_c0(to_semitones_from_c0(n), p)
        /\ LoopIdle

Call_AbstractNote_add_interval ==
    /\ Idle
    /\ \E a \in AbstractNote, i \in SimpleInterval :
        /\ op' = "AbstractNote::add_interval"
        /\ arg' = [note |-> a, interval |-> i]
        /\ ret' = AbstractNote_add_interval(a, i)
        /\ LoopIdle

Call_bias_simple_interval_quality ==
    /\ Idle
    /\ \E x \in SimpleInterval, q \in IntervalQuality :
        /\ op' = "bias_simple_interval_quality"
        /\ arg' = [input_interval |-> x, bias_quality |-> q]
        /\ ret' = bias_simple_interval_quality(x, q)
        /\ LoopIdle

\* bias_abstract_note_to_enharmonic_equivalent is entered: it returns at
\* once when the modifiers are equal, and starts one of its loops otherwise
BiasStart ==
    /\ Idle
    /\ \E note \in AbstractNote, bias \in NoteModifier :
        /\ op' = "bias_abstract_note_to_enharmonic_equivalent"
        /\ arg' = [note |-> note, bias |-> bias]
        /\ current_note' = note.raw_note
        /\ semitone_acc' = 0
        /\ IF NoteModifier_cmp(note.modifier, bias) = "Equal"
           THEN pc' = "done" /\ ret' = note
           ELSE pc' = "loop" /\ ret' = NoArg
    /\ ObjectsIdle

\* one iteration of the loop
BiasStep ==
    /\ pc = "loop"
    /\ LET r == bias_iteration(arg.note, arg.bias, current_note, semitone_acc) IN
       /\ pc' = IF r.brk THEN "done" ELSE "loop"
       /\ ret' = IF r.brk THEN r.value ELSE ret
       /\ current_note' = r.current_note
       /\ semitone_acc' = r.semitone_acc
    /\ UNCHANGED <<op, arg>>
    /\ ObjectsIdle


Call_SimpleInterval_add ==
    /\ Idle
    /\ \E a \in SimpleInterval, b \in SimpleInterval :
        /\ op' = "SimpleInterval::add"
        /\ arg' = [self |-> a, rhs |-> b]
        /\ ret' = SimpleInterval_add(a, b)
        /\ LoopIdle

Call_SimpleInterval_sub ==
    /\ Idle
    /\ \E a \in SimpleInterval, b \in SimpleInterval :
        /\ op' = "SimpleInterval::sub"
        /\ arg' = [self |-> a, rhs |-> b]
        /\ ret' = SimpleInterval_sub(a, b)
        /\ LoopIdle


\* apply_inversion takes &self: self_after is the receiver after the call
Call_apply_inversion ==
    /\ Idle
    /\ \E c \in ChordInputs, n \in InversionInputs :
        /\ op' = "Chord::apply_inversion"
        /\ arg' = [self |-> c, inversion |-> n]
        /\ ret' = [self_after |-> c, value |-> apply_inversion(c, n)]
        /\ LoopIdle


Call_to_notes ==
    /\ Idle
    /\ \E q \in ChordQuality, root \in RootInputs :
        /\ op' = "ChordQuality::to_notes"
        /\ arg' = [quality |-> q, root |-> root]
        /\ ret' = to_notes(q, root)
        /\ LoopIdle


Call_try_from ==
    /\ Idle
    /\ \E value \in StringInputs :
        /\ op' = "AbstractNote::try_from"
        /\ arg' = [value |-> value]
        /\ ret' = try_from(value)
        /\ LoopIdle


\* CompoundInterval::from_semitones(s), and semitones() of the result
Call_CompoundInterval_from_semitones ==
    /\ Idle
    /\ \E s \in CompoundSemitoneInputs :
        /\ op' = "CompoundInterval::from_semitones"
        /\ arg' = [semitones |-> s]
        /\ ret' = [interval |-> CompoundInterval_from_semitones(s),
                   semitones |->
                       CompoundInterval_semitones(CompoundInterval_from_semitones(s))]
        /\ LoopIdle


\* a.interval_from_c(), the note from_interval_from_c rebuilds from it, and
\* that note's interval_from_c()
Call_from_interval_from_c ==
    /\ Idle
    /\ \E a \in AbstractNote, p \in ModifierPreference :
        /\ op' = "AbstractNote::from_interval_from_c"
        /\ arg' = [note |-> a, interval |-> interval_from_c(a),
                   modifier_preference |-> p]
        /\ ret' = from_interval_from_c(interval_from_c(a), p)
        /\ LoopIdle


Call_to_semitones_from_c0 ==
    /\ Idle
    /\ \E n \in SignedNoteInputs :
        /\ op' = "Note::to_semitones_from_c0"
        /\ arg' = [note |-> n]
        /\ ret' = to_semitones_from_c0(n)
        /\ LoopIdle


\* next_note of a letter, and prev_note of the letter it returns
Call_next_note ==
    /\ Idle
    /\ \E n \in RawNote :
        /\ op' = "RawNote::next_note"
        /\ arg' = [note |-> n]
        /\ ret' = [next |-> next_note(n), back |-> prev_note(next_note(n)[1])]
        /\ LoopIdle


Call_SimpleInterval_add_semitones ==
    /\ Idle
    /\ \E x \in SimpleInterval, n \in SemitoneInputs :
        /\ op' = "SimpleInterval::add_semitones"
        /\ arg' = [interval |-> x, semitones |-> n]
        /\ ret' = SimpleInterval_add_semitones(x, n)
        /\ LoopIdle


\* SimpleIntervalFromSemitones::new(s).add_semitones(n)
Call_SimpleIntervalFromSemitones_add_semitones ==
    /\ Idle
    /\ \E s \in SemitoneInputs, n \in SemitoneInputs :
        /\ op' = "SimpleIntervalFromSemitones::add_semitones"
        /\ arg' = [self |-> SimpleIntervalFromSemitones_new(s), s |-> s,
                   semitones |-> n]
        /\ ret' = SimpleIntervalFromSemitones_add_semitones(
                      SimpleIntervalFromSemitones_new(s), n)
        /\ LoopIdle


Call_interval_at_degree ==
    /\ Idle
    /\ \E mode \in ScaleMode, degree \in DOMAIN ScaleDegreeOrder :
        /\ op' = "ScaleMode::interval_at_degree"
        /\ arg' = [mode |-> mode, degree |-> ScaleDegreeOrder[degree]]
        /\ ret' = interval_at_degree(mode, ScaleDegreeOrder[degree])
        /\ LoopIdle


\* get_simple_interval and semitones of a named compound interval
Call_get_simple_interval ==
    /\ Idle
    /\ \E v \in DOMAIN CompoundInterval_named :
        /\ op' = "CompoundInterval::get_simple_interval"
        /\ arg' = [self |-> [variant |-> v]]
        /\ ret' = [simple_interval |->
                       CompoundInterval_get_simple_interval([variant |-> v]),
                   semitones |-> CompoundInterval_semitones([variant |-> v])]
        /\ LoopIdle


\* ChordBuilder::new(root), an optional .quality(q), the .add_note calls, .build()
Call_ChordBuilder_build ==
    /\ Idle
    /\ \E root \in ChordNoteInputs, q \in {None} \cup {Some(c) : c \in ChordQuality},
          added \in AdditionInputs :
        LET fresh == ChordBuilder_new(root)
            with_quality == IF q.some THEN ChordBuilder_quality(fresh, q.value)
                            ELSE fresh
            builder == ChordBuilder_add_notes(with_quality, added)
        IN /\ op' = "ChordBuilder::build"
           /\ arg' = [root |-> root, quality |-> q, added |-> added]
           /\ ret' = ChordBuilder_build(builder)
           /\ LoopIdle

Next ==
    \/ Call_new
    \/ Call_inverse
    \/ Call_Note_add_semitones
    \/ Call_from_semitones_from_c0
    \/ Call_AbstractNote_add_interval
    \/ Call_bias_simple_interval_quality
    \/ BiasStart
    \/ BiasStep
    \/ Call_SimpleInterval_add
    \/ Call_SimpleInterval_sub
    \/ Call_apply_inversion
    \/ Call_to_notes
    \/ Call_try_from
    \/ Call_CompoundInterval_from_semitones
    \/ Call_from_interval_from_c
    \/ Call_to_semitones_from_c0
    \/ Call_next_note
    \/ Call_SimpleInterval_add_semitones
    \/ Call_SimpleIntervalFromSemitones_add_semitones
    \/ Call_interval_at_degree
    \/ Call_get_simple_interval
    \/ Call_ChordBuilder_build

Spec == Init /\ [][Next]_vars

\* the biasing of abstract notes alone; a loop that has started goes on
NextBias ==
    \/ BiasStart
    \/ BiasStep

SpecBias == Init /\ [][NextBias]_vars /\ WF_vars(BiasStep)

-----------------------------------------------------------------------------
(* The iterators over a scale: some iterators of one root and mode, each   *)
(* advanced on its own.                                                    *)

ScaleIterIdle == UNCHANGED <<pc, current_note, semitone_acc, chord_context>>

\* the first ScaleNoteIter::new(root, mode)
ScaleIterNew ==
    /\ Idle
    /\ \E root \in ScaleRootInputs, mode \in ScaleMode :
        /\ op' = "ScaleNoteIter"
        /\ arg' = [root |-> root, mode |-> mode]
        /\ scale_iters' = <<ScaleNoteIter_new(root, mode)>>
        /\ yielded' = <<<<>>>>
        /\ UNCHANGED ret
        /\ ScaleIterIdle

\* another ScaleNoteIter::new from the same root and mode
ScaleIterNewAgain ==
    /\ op = "ScaleNoteIter"
    /\ Len(scale_iters) < MaxIters
    /\ scale_iters' = Append(scale_iters, ScaleNoteIter_new(arg.root, arg.mode))
    /\ yielded' = Append(yielded, <<>>)
    /\ UNCHANGED <<op, arg, ret>>
    /\ ScaleIterIdle

\* next() on one of the iterators
ScaleIterNext ==
    /\ op = "ScaleNoteIter"
    /\ \E k \in 1..Len(scale_iters) :
        /\ Len(yielded[k]) < MaxNextCalls
        /\ LET r == ScaleNoteIter_next(scale_iters[k]) IN
           /\ scale_iters' = [scale_iters EXCEPT ![k] = r.self]
           /\ yielded' = [yielded EXCEPT ![k] = Append(@, r.item)]
        /\ UNCHANGED <<op, arg, ret>>
        /\ ScaleIterIdle

NextScale ==
    \/ ScaleIterNew
    \/ ScaleIterNewAgain
    \/ ScaleIterNext

SpecScale == Init /\ [][NextScale]_vars

-----------------------------------------------------------------------------
(* A ChordContext under any sequence of set_root, set_quality and          *)
(* get_calculated_chord.                                                   *)

ContextIdle ==
    UNCHANGED <<pc, current_note, semitone_acc, scale_iters, yielded>>

ContextNew ==
    /\ Idle
    /\ \E root \in ChordNoteInputs, chord_quality \in ChordQuality :
        /\ op' = "ChordContext::new"
        /\ arg' = [root |-> root, quality |-> chord_quality]
        /\ ret' = NoArg
        /\ chord_context' = Some(ChordContext_new(root, chord_quality))
        /\ ContextIdle

ContextSetRoot ==
    /\ chord_context.some
    /\ \E root \in ChordNoteInputs :
        /\ op' = "ChordContext::set_root"
        /\ arg' = [root |-> root]
        /\ ret' = NoArg
        /\ chord_context' = Some(ChordContext_set_root(chord_context.value, root))
        /\ ContextIdle

ContextSetQuality ==
    /\ chord_context.some
    /\ \E chord_quality \in ChordQuality :
        /\ op' = "ChordContext::set_quality"
        /\ arg' = [quality |-> chord_quality]
        /\ ret' = NoArg
        /\ chord_context' =
              Some(ChordContext_set_quality(chord_context.value, chord_quality))
        /\ ContextIdle

ContextGetCalculatedChord ==
    /\ chord_context.some
    /\ LET r == ChordContext_get_calculated_chord(chord_context.value) IN
       /\ op' = "ChordContext::get_calculated_chord"
       /\ arg' = NoArg
       /\ ret' = IF r.panicked THEN [panicked |-> TRUE]
                 ELSE [panicked |-> FALSE, value |-> r.value]
       /\ chord_context' = Some(r.self)
    /\ ContextIdle

NextContext ==
    \/ ContextNew
    \/ ContextSetRoot
    \/ ContextSetQuality
    \/ ContextGetCalculatedChord

SpecContext == Init /\ [][NextContext]_vars

-----------------------------------------------------------------------------
(* C1: for every semitone count s, the pair new(s) returns recombines to   *)
(* s: octave_overflow * 12 + interval.semitones() = s, for negative s, 0,  *)
(* 12 and the multiples of 12 as well.                                     *)
C1_Recombines ==
    op = "SimpleIntervalFromSemitones::new" =>
        /\ ret.interval \in SimpleInterval
        /\ SimpleIntervalFromSemitones_semitones(ret) = arg.semitones

C1_Witness ==
    /\ op = "SimpleIntervalFromSemitones::new"
    /\ arg.semitones = 0 - 24
    /\ ret = [interval |-> "PerfectUnison", octave_overflow |-> 0 - 2]

(* C2: new(0) = (PerfectUnison, 0), new(12) = (PerfectOctave, 0); for any  *)
(* other s the overflow is floor(s / 12) and the interval is the one the   *)
(* table gives for the remainder s mod 12, a value of 0..11.               *)
C2_FloorDecomposition ==
    op = "SimpleIntervalFromSemitones::new" =>
        LET s == arg.semitones IN
        /\ s = 0 => ret = [interval |-> "PerfectUnison", octave_overflow |-> 0]
        /\ s = 12 => ret = [interval |-> "PerfectOctave", octave_overflow |-> 0]
        /\ s \notin {0, 12} =>
              /\ ret.octave_overflow = s \div 12
              /\ ret.interval \in SimpleInterval
              /\ semitones(ret.interval) = s % 12
              /\ ret.interval # "PerfectOctave"
        /\ s = 13 => ret = [interval |-> "MinorSecond", octave_overflow |-> 1]
        /\ s = 0 - 2 => ret = [interval |-> "MinorSeventh", octave_overflow |-> 0 - 1]
        /\ s = 0 - 5 => ret = [interval |-> "PerfectFifth", octave_overflow |-> 0 - 1]

C2_Witness ==
    /\ op = "SimpleIntervalFromSemitones::new"
    /\ arg.semitones = 0 - 5
    /\ ret = [interval |-> "PerfectFifth", octave_overflow |-> 0 - 1]

(* C3: for each of the 26 intervals x, inverse(inverse(x)) = x, the        *)
(* interval numbers of x and inverse(x) sum to 9, and the quality of       *)
(* inverse(x) is the flipped quality of x.                                 *)
FlippedQuality(q) ==
    CASE q = "Perfect" -> "Perfect"
      [] q = "Major" -> "Minor"
      [] q = "Minor" -> "Major"
      [] q = "Augmented" -> "Diminished"
      [] q = "Diminished" -> "Augmented"

C3_InverseInvolution ==
    op = "SimpleInterval::inverse" =>
        /\ ret \in SimpleInterval
        /\ inverse(ret) = arg.interval
        /\ interval_number(arg.interval) + interval_number(ret) = 9
        /\ quality(ret) = FlippedQuality(quality(arg.interval))

C3_Witness ==
    /\ op = "SimpleInterval::inverse"
    /\ arg.interval = "AugmentedSecond"
    /\ ret = "DiminishedSeventh"

(* C4: for a note n of octave >= 0 and an integer k, add_semitones(n, k)   *)
(* panics when n's semitones from C0 plus k is negative, and otherwise     *)
(* returns a note that many semitones from C0, never a negative value.     *)
C4_AddSemitonesRange ==
    op = "Note::add_semitones" =>
        LET total == to_semitones_from_c0(arg.note) + arg.semitones IN
        IF total < 0 THEN ret.panicked
        ELSE /\ ~ret.panicked
             /\ ret.note.abstract_note \in AbstractNote
             /\ to_semitones_from_c0(ret.note) = total
             /\ to_semitones_from_c0(ret.note) >= 0

C4_Witness ==
    /\ op = "Note::add_semitones"
    /\ arg.note = Note_new("C", 0, "Natural")
    /\ arg.semitones = 0 - 1
    /\ ret.panicked

(* C5: for an abstract note a and an interval i, the semitones of the      *)
(* interval from C of a + i and the semitones of a's interval from C plus  *)
(* i are congruent modulo 12.                                              *)
C5_AddIntervalPitchClass ==
    op = "AbstractNote::add_interval" =>
        /\ ret \in AbstractNote
        /\ (semitones(interval_from_c(ret))
             - semitones(SimpleInterval_add(interval_from_c(arg.note), arg.interval)))
           % 12 = 0

C5_Witness ==
    /\ op = "AbstractNote::add_interval"
    /\ arg.note = [raw_note |-> "C", modifier |-> "Sharp"]
    /\ arg.interval = "MajorSecond"
    /\ ret = [raw_note |-> "D", modifier |-> "Sharp"]

(* C6: for a note n of octave >= 0 and either preference p, the note       *)
(* from_semitones_from_c0(n.to_semitones_from_c0(), p) has the semitone    *)
(* value of n.                                                             *)
C6_NoteRoundTrip ==
    op = "Note::from_semitones_from_c0" =>
        to_semitones_from_c0(ret) = to_semitones_from_c0(arg.note)

(* C7: bias_simple_interval_quality(x, q) is the interval of quality q     *)
(* with the semitone count of x when there is one, and x otherwise.        *)
C7_IntervalBiasFindsEquivalent ==
    op = "bias_simple_interval_quality" =>
        LET x == arg.input_interval
            equivalents == {y \in SimpleInterval :
                               /\ quality(y) = arg.bias_quality
                               /\ semitones(y) = semitones(x)}
        IN  IF equivalents # {} THEN ret \in equivalents ELSE ret = x

(* C8: bias_simple_interval_quality(x, q) has the semitone count of x.     *)
C8_IntervalBiasKeepsSemitones ==
    op = "bias_simple_interval_quality" =>
        semitones(ret) = semitones(arg.input_interval)

\* the pitch class of a letter with a modifier
PitchClass(letter, modifier) ==
    (semitones_from_c(letter) + Semitone_from_modifier(modifier)) % 12

(* C9: bias_abstract_note_to_enharmonic_equivalent(n, b) is a note of      *)
(* modifier b and the pitch class of n when some letter with modifier b    *)
(* has that pitch class, and n otherwise.                                  *)
C9_NoteBiasFindsSpelling ==
    (op = "bias_abstract_note_to_enharmonic_equivalent" /\ pc = "done") =>
        LET n == arg.note
            spellings == {l \in RawNote :
                             PitchClass(l, arg.bias) = PitchClass(n.raw_note, n.modifier)}
        IN  IF spellings # {}
            THEN ret.modifier = arg.bias /\ ret.raw_note \in spellings
            ELSE ret = n

\* PerfectUnison and PerfectOctave count as the same interval from C
SimilarInterval(i, j) ==
    IF i \in {"PerfectUnison", "PerfectOctave"}
    THEN j \in {"PerfectUnison", "PerfectOctave"}
    ELSE i = j

(* C10: bias_abstract_note_to_enharmonic_equivalent(n, b) terminates, and  *)
(* the note it returns has the interval from C of n, PerfectUnison and     *)
(* PerfectOctave counting as the same.                                     *)
C10_NoteBiasKeepsPitchClass ==
    /\ (pc = "loop") ~> (pc = "done")
    /\ []((op = "bias_abstract_note_to_enharmonic_equivalent" /\ pc = "done") =>
            /\ ret \in AbstractNote
            /\ SimilarInterval(interval_from_c(arg.note), interval_from_c(ret)))

C10_Witness ==
    /\ op = "bias_abstract_note_to_enharmonic_equivalent"
    /\ pc = "done"
    /\ arg = [note |-> [raw_note |-> "F", modifier |-> "DoubleFlat"], bias |-> "Sharp"]
    /\ semitone_acc = 1
    /\ ret = [raw_note |-> "D", modifier |-> "Sharp"]


(* C11: the sum of two simple intervals has the semitones of the operands  *)
(* added, modulo 12, and their difference has the semitones subtracted,    *)
(* modulo 12; a major third plus a minor second is a perfect fourth.       *)
C11_AddSubCongruent ==
    /\ op = "SimpleInterval::add" =>
        /\ ret \in SimpleInterval
        /\ semitones(ret) % 12 = (semitones(arg.self) + semitones(arg.rhs)) % 12
        /\ (arg.self = "MajorThird" /\ arg.rhs = "MinorSecond")
              => ret = "PerfectFourth"
    /\ op = "SimpleInterval::sub" =>
        /\ ret \in SimpleInterval
        /\ semitones(ret) % 12 = (semitones(arg.self) - semitones(arg.rhs)) % 12

C11_Witness ==
    /\ op = "SimpleInterval::add"
    /\ arg = [self |-> "MajorThird", rhs |-> "MinorSecond"]
    /\ ret = "PerfectFourth"


(* C12: on a chord of at least one note, apply_inversion(n) rotates the    *)
(* notes: n > 0 moves the first note to the end n times, one octave up     *)
(* each time, n < 0 moves the last note to the front |n| times, one octave *)
(* down each time, and 0 gives an equal chord.  The length, the letters    *)
(* and the modifiers are kept and the receiver is unchanged; [C4,E4,G4]    *)
(* gives [E4,G4,C5], [G4,C5,E5] and [G3,C4,E4] for n = 1, 2, -1.           *)
C12_InversionRotates ==
    (op = "Chord::apply_inversion" /\ Len(arg.self.notes) > 0) =>
        LET c == arg.self.notes
            L == Len(c)
            n == arg.inversion
            m == IF n < 0 THEN 0 - n ELSE n
            \* the place in c of the note at place i of the result
            from(i) == IF n >= 0 THEN ((i - 1 + n) % L) + 1
                       ELSE ((i - 1 + (L * m) - m) % L) + 1
            \* how many octaves the note of place j in c has moved
            moved(j) == IF n >= 0 THEN (n - j + L) \div L
                        ELSE 0 - ((m + j - 1) \div L)
            CEG == <<Note_new("C", 4, "Natural"), Note_new("E", 4, "Natural"),
                     Note_new("G", 4, "Natural")>>
        IN  /\ ret.self_after = arg.self
            /\ ~ret.value.panicked
            /\ Len(ret.value.chord.notes) = L
            /\ \A i \in 1..L :
                  ret.value.chord.notes[i] =
                      [abstract_note |-> c[from(i)].abstract_note,
                       octave |-> c[from(i)].octave + moved(from(i))]
            /\ n = 0 => ret.value.chord = arg.self
            /\ (c = CEG /\ n = 1) =>
                  ret.value.chord.notes =
                      <<Note_new("E", 4, "Natural"), Note_new("G", 4, "Natural"),
                        Note_new("C", 5, "Natural")>>
            /\ (c = CEG /\ n = 2) =>
                  ret.value.chord.notes =
                      <<Note_new("G", 4, "Natural"), Note_new("C", 5, "Natural"),
                        Note_new("E", 5, "Natural")>>
            /\ (c = CEG /\ n = 0 - 1) =>
                  ret.value.chord.notes =
                      <<Note_new("G", 3, "Natural"), Note_new("C", 4, "Natural"),
                        Note_new("E", 4, "Natural")>>

C12_Witness ==
    /\ op = "Chord::apply_inversion"
    /\ arg.self.notes = <<Note_new("C", 4, "Natural"), Note_new("E", 4, "Natural"),
                          Note_new("G", 4, "Natural")>>
    /\ arg.inversion = 2
    /\ ret.value.chord.notes =
          <<Note_new("G", 4, "Natural"), Note_new("C", 5, "Natural"),
            Note_new("E", 5, "Natural")>>

(* C13: for a chord c of at least one note and |n| <= the number of notes, *)
(* c.apply_inversion(n).apply_inversion(-n) is c again: the same notes at  *)
(* the same octaves in the same order.                                     *)
C13_InversionRoundTrip ==
    (/\ op = "Chord::apply_inversion"
     /\ Len(arg.self.notes) > 0
     /\ arg.inversion <= Len(arg.self.notes)
     /\ 0 - arg.inversion <= Len(arg.self.notes)) =>
        /\ ~ret.value.panicked
        /\ apply_inversion(ret.value.chord, 0 - arg.inversion)
              = [panicked |-> FALSE, chord |-> arg.self]

C13_Witness ==
    /\ op = "Chord::apply_inversion"
    /\ arg.self.notes = <<Note_new("E", 3, "Flat"), Note_new("C", 4, "Natural"),
                          Note_new("G", 5, "Sharp")>>
    /\ arg.inversion = 3
    /\ ret.value.chord.notes =
          <<Note_new("E", 4, "Flat"), Note_new("C", 5, "Natural"),
            Note_new("G", 6, "Sharp")>>
    /\ apply_inversion(ret.value.chord, 0 - 3).chord = arg.self


(* C14: for every chord quality q and root r of octave >= 0, q.to_notes(r) *)
(* is r followed by one note per entry of the strictly increasing semitone *)
(* list of q, each that many semitones above r (Major 4, 7 and Minor7th    *)
(* 3, 7, 10 after the root), so the pitch ascends strictly; Major on C4    *)
(* is [C4, E4, G4].                                                        *)
C14_ToNotesOffsets ==
    (op = "ChordQuality::to_notes" /\ arg.root.octave >= 0) =>
        LET ks == to_notes_semitones(arg.quality)
            base == to_semitones_from_c0(arg.root)
        IN  /\ ~ret.panicked
            /\ Len(ret.notes) = Len(ks) + 1
            /\ ret.notes[1] = arg.root
            /\ \A i \in 1..Len(ks) :
                  /\ to_semitones_from_c0(ret.notes[i + 1]) = base + ks[i]
                  /\ ks[i] > 0
                  /\ i > 1 => ks[i - 1] < ks[i]
            /\ \A i \in 1..Len(ks) :
                  to_semitones_from_c0(ret.notes[i])
                      < to_semitones_from_c0(ret.notes[i + 1])
            /\ arg.quality = "Major" => ks = <<4, 7>>
            /\ arg.quality = "Minor7th" => ks = <<3, 7, 10>>
            /\ (arg.quality = "Major" /\ arg.root = Note_new("C", 4, "Natural"))
                  => ret.notes = <<Note_new("C", 4, "Natural"),
                                   Note_new("E", 4, "Natural"),
                                   Note_new("G", 4, "Natural")>>

C14_Witness ==
    /\ op = "ChordQuality::to_notes"
    /\ arg = [quality |-> "Major", root |-> Note_new("C", 4, "Natural")]
    /\ ret.notes = <<Note_new("C", 4, "Natural"), Note_new("E", 4, "Natural"),
                     Note_new("G", 4, "Natural")>>

(* C15: Minor7th.to_notes(C4 natural) is exactly C4, E flat 4, G4,         *)
(* B flat 4, in that order.                                                *)
C15_Minor7thOnC4 ==
    (/\ op = "ChordQuality::to_notes"
     /\ arg = [quality |-> "Minor7th", root |-> Note_new("C", 4, "Natural")]) =>
        /\ ~ret.panicked
        /\ ret.notes = <<Note_new("C", 4, "Natural"), Note_new("E", 4, "Flat"),
                         Note_new("G", 4, "Natural"), Note_new("B", 4, "Flat")>>


(* C16: an iterator over the notes of a scale yields exactly eight notes,  *)
(* mode.note_at_degree(root, d) for d = First .. Octave in that order, and *)
(* None on every later call; another iterator of the same root and mode    *)
(* yields the same sequence; Ionian on C natural gives C, D, E, F, G, A,   *)
(* B, C, all natural.                                                      *)
C16_ScaleIterYields ==
    op = "ScaleNoteIter" =>
        /\ \A k \in 1..Len(yielded) : \A i \in 1..Len(yielded[k]) :
              /\ i <= 8 => yielded[k][i] =
                    Some(note_at_degree(arg.mode, arg.root, ScaleDegreeOrder[i]))
              /\ i > 8 => yielded[k][i] = None
        /\ \A k \in 1..Len(yielded) : \A j \in 1..Len(yielded) :
              \A i \in 1..Len(yielded[k]) :
                  i <= Len(yielded[j]) => yielded[k][i] = yielded[j][i]
        /\ (arg.mode = "Ionian" /\ arg.root = [raw_note |-> "C", modifier |-> "Natural"])
              => \A k \in 1..Len(yielded) : \A i \in 1..Len(yielded[k]) :
                    i <= 8 => yielded[k][i] =
                        Some([raw_note |-> <<"C", "D", "E", "F", "G", "A", "B", "C">>[i],
                              modifier |-> "Natural"])

C16_Witness ==
    /\ op = "ScaleNoteIter"
    /\ arg = [root |-> [raw_note |-> "C", modifier |-> "Natural"], mode |-> "Ionian"]
    /\ Len(yielded) = 2
    /\ Len(yielded[1]) = 10
    /\ yielded[1][8] = Some([raw_note |-> "C", modifier |-> "Natural"])
    /\ yielded[1][9] = None
    /\ yielded[1][10] = None
    /\ Len(yielded[2]) = 8
    /\ yielded[2][7] = Some([raw_note |-> "B", modifier |-> "Natural"])


(* C17: AbstractNote::try_from is total: every string, a string of only    *)
(* whitespace included, gives Ok(note) or one typed error and never        *)
(* aborts; the empty string gives EmptyInput, more than three characters   *)
(* after trimming give InputTooLong, an unrecognised first letter gives    *)
(* InvalidNote and an unrecognised modifier token gives InvalidModifier.   *)
C17_TryFromTotal ==
    op = "AbstractNote::try_from" =>
        LET trimmed == trim(arg.value)
            letter_ok == Len(trimmed) > 0
                            /\ to_ascii_uppercase(Head(trimmed)) \in RawNote
            modifier_ok == Len(trimmed) > 0
                            /\ Tail(trimmed) \in {<<>>, <<"#">>, <<"b">>, <<"#", "#">>,
                                                  <<"x">>, <<"b", "b">>}
        IN  /\ \/ ret.kind = "Ok" /\ ret.value \in AbstractNote
               \/ ret.kind = "Err"
                    /\ ret.error \in {"EmptyInput", "InvalidNote",
                                      "InvalidModifier", "InputTooLong"}
            /\ Len(arg.value) = 0 => ret = Err("EmptyInput")
            /\ Len(trimmed) > 3 => ret = Err("InputTooLong")
            /\ (Len(trimmed) \in 1..3 /\ ~letter_ok) => ret = Err("InvalidNote")
            /\ (Len(trimmed) \in 1..3 /\ letter_ok /\ ~modifier_ok)
                  => ret = Err("InvalidModifier")


(* C18: in every state of a ChordContext reached by set_root, set_quality  *)
(* and get_calculated_chord calls, the cached chord is absent or is        *)
(* quality.to_chord(root) of the current root and quality, so              *)
(* get_calculated_chord returns the chord of the current root and quality; *)
(* set_root and set_quality clear the cache and leave the other field as   *)
(* it was.                                                                 *)
C18_CacheIsCurrentChord ==
    /\ [](chord_context.some =>
            LET self == chord_context.value
                chord == to_chord(self.quality, self.root)
            IN  /\ ~chord.panicked
                /\ self.calculated_chord \in {None, Some(chord.chord)}
                /\ op = "ChordContext::get_calculated_chord"
                      => ret = [panicked |-> FALSE, value |-> chord.chord])
    /\ [][(chord_context.some /\ op' = "ChordContext::set_root") =>
            /\ chord_context'.value.root = arg'.root
            /\ chord_context'.value.quality = chord_context.value.quality
            /\ chord_context'.value.calculated_chord = None]_vars
    /\ [][(chord_context.some /\ op' = "ChordContext::set_quality") =>
            /\ chord_context'.value.quality = arg'.quality
            /\ chord_context'.value.root = chord_context.value.root
            /\ chord_context'.value.calculated_chord = None]_vars

C18_Witness ==
    /\ op = "ChordContext::get_calculated_chord"
    /\ chord_context.some
    /\ chord_context.value.root = Note_new("C", 4, "Natural")
    /\ chord_context.value.quality = "Major"
    /\ chord_context.value.calculated_chord =
          Some(Chord_new(<<Note_new("C", 4, "Natural"), Note_new("E", 4, "Natural"),
                           Note_new("G", 4, "Natural")>>))
    /\ ret.value = chord_context.value.calculated_chord.value


(* C19: for every semitone count s >= 13, from_semitones(s).semitones() is *)
(* s; 13..25 give a named variant, and a count above 25 gives Other, whose *)
(* stack is floor(s / 12) perfect octaves followed by the simple interval  *)
(* of the remainder, in descending order.                                  *)
C19_CompoundRoundTrip ==
    (op = "CompoundInterval::from_semitones" /\ arg.semitones >= 13) =>
        LET s == arg.semitones IN
        /\ ret.semitones = s
        /\ s <= 25 => ret.interval.variant \in DOMAIN CompoundInterval_named
        /\ s > 25 =>
            /\ ret.interval.variant = "Other"
            /\ LET stack == ret.interval.other.interval_stack IN
               /\ Len(stack) = (s \div 12) + 1
               /\ \A k \in 1..(s \div 12) : stack[k] = "PerfectOctave"
               /\ stack[Len(stack)] \in SimpleInterval
               /\ semitones(stack[Len(stack)]) = s % 12
               /\ \A k \in 1..(Len(stack) - 1) :
                     SimpleInterval_ord(stack[k]) >= SimpleInterval_ord(stack[k + 1])

C19_Witness ==
    /\ op = "CompoundInterval::from_semitones"
    /\ arg.semitones = 43
    /\ ret.interval = [variant |-> "Other",
                       other |-> [interval_stack |->
                           <<"PerfectOctave", "PerfectOctave", "PerfectOctave",
                             "PerfectFifth">>]]
    /\ ret.semitones = 43


(* C20: for every abstract note a and preference p, the note rebuilt by    *)
(* from_interval_from_c(a.interval_from_c(), p) has an interval from C of  *)
(* exactly the semitones of a.interval_from_c(), whatever its spelling.    *)
C20_IntervalFromCRoundTrip ==
    op = "AbstractNote::from_interval_from_c" =>
        /\ ret \in AbstractNote
        /\ semitones(interval_from_c(ret)) = semitones(arg.interval)


(* C21: for every note of letter L, modifier m and octave o, negative      *)
(* octaves included, to_semitones_from_c0() is gap(L) + 12 * o +           *)
(* offset(m), with the gaps C 0, D 2, E 4, F 5, G 7, A 9, B 11 and the     *)
(* offsets -2 .. +2 from double flat to double sharp (C4 is 48, C#4 is 49, *)
(* Cb4 is 47).                                                             *)
C21_SemitonesFromC0 ==
    op = "Note::to_semitones_from_c0" =>
        LET gap == [C |-> 0, D |-> 2, E |-> 4, F |-> 5, G |-> 7, A |-> 9, B |-> 11]
            offset == [DoubleFlat |-> 0 - 2, Flat |-> 0 - 1, Natural |-> 0,
                       Sharp |-> 1, DoubleSharp |-> 2]
            n == arg.note
        IN  /\ ret = gap[n.abstract_note.raw_note] + (12 * n.octave)
                        + offset[n.abstract_note.modifier]
            /\ n = Note_new("C", 4, "Natural") => ret = 48
            /\ n = Note_new("C", 4, "Sharp") => ret = 49
            /\ n = Note_new("C", 4, "Flat") => ret = 47


(* C22: the letters form a fixed cycle: prev_note of the letter that       *)
(* next_note(L) returns is L again, with the same gap; the gap is 1 from   *)
(* E to F and from B to C and 2 for every other step, and the seven        *)
(* forward gaps sum to 12.                                                 *)
C22_LetterCycle ==
    op = "RawNote::next_note" =>
        /\ ret.next[1] \in RawNote
        /\ ret.back = <<arg.note, ret.next[2]>>
        /\ ret.next[2] = IF arg.note \in {"E", "B"} THEN 1 ELSE 2
        /\ arg.note = "E" => ret.next[1] = "F"
        /\ arg.note = "B" => ret.next[1] = "C"
        /\ next_note("C")[2] + next_note("D")[2] + next_note("E")[2]
              + next_note("F")[2] + next_note("G")[2] + next_note("A")[2]
              + next_note("B")[2] = 12

C22_Witness ==
    /\ op = "RawNote::next_note"
    /\ arg.note = "E"
    /\ ret = [next |-> <<"F", 1>>, back |-> <<"E", 1>>]


(* C23: for every simple interval x and integer n, the interval of         *)
(* x.add_semitones(n) is perfect, major or minor: augmented and diminished *)
(* intervals never appear in the result of the arithmetic.                 *)
C23_AddSemitonesQualities ==
    op = "SimpleInterval::add_semitones" =>
        /\ ret.interval \in SimpleInterval
        /\ quality(ret.interval) \in {"Perfect", "Major", "Minor"}


(* C24: for all integers s and n, new(s).add_semitones(n) equals           *)
(* new(s + n): the same interval and the same octave_overflow.             *)
C24_AddSemitonesIsNewOfSum ==
    op = "SimpleIntervalFromSemitones::add_semitones" =>
        ret = SimpleIntervalFromSemitones_new(arg.s + arg.semitones)


(* C25: the note Note::add_semitones returns is spelled after the original *)
(* note's modifier: Natural or Sharp when the original is Natural, Sharp   *)
(* or DoubleSharp, Natural or Flat when it is Flat or DoubleFlat; never a  *)
(* double accidental.                                                      *)
C25_AddSemitonesSpelling ==
    (op = "Note::add_semitones" /\ ~ret.panicked) =>
        LET was == arg.note.abstract_note.modifier
            is == ret.note.abstract_note.modifier
        IN  /\ was \in {"Natural", "Sharp", "DoubleSharp"}
                  => is \in {"Natural", "Sharp"}
            /\ was \in {"Flat", "DoubleFlat"} => is \in {"Natural", "Flat"}
            /\ is \notin {"DoubleSharp", "DoubleFlat"}

C25_Witness ==
    /\ op = "Note::add_semitones"
    /\ arg = [note |-> Note_new("D", 1, "Flat"), semitones |-> 2]
    /\ ret = [panicked |-> FALSE, note |-> Note_new("E", 1, "Flat")]


(* C26: for every mode m and degree d, m.interval_at_degree(d) has the     *)
(* interval number of the ordinal of d, is the perfect unison at First and *)
(* the perfect octave at Octave, has more semitones than the interval of   *)
(* the degree before, and is the interval the mode's documented pattern    *)
(* names (Lydian an augmented fourth, Locrian a diminished fifth).         *)
C26_ModeIntervals ==
    op = "ScaleMode::interval_at_degree" =>
        LET P == "Perfect"
            M == "Major"
            m == "Minor"
            A == "Augmented"
            d == "Diminished"
            \* the qualities of "Interval pattern from root" per mode
            documented ==
                [Ionian |-> <<P, M, M, P, P, M, M, P>>,
                 Dorian |-> <<P, M, m, P, P, M, m, P>>,
                 Phrygian |-> <<P, m, m, P, P, m, m, P>>,
                 Lydian |-> <<P, M, M, A, P, M, M, P>>,
                 Mixolydian |-> <<P, M, M, P, P, M, m, P>>,
                 Aeolian |-> <<P, M, m, P, P, m, m, P>>,
                 Locrian |-> <<P, m, m, P, d, m, m, P>>]
            k == CHOOSE i \in 1..8 : ScaleDegreeOrder[i] = arg.degree
        IN  /\ ret \in SimpleInterval
            /\ interval_number(ret) = k
            /\ quality(ret) = documented[arg.mode][k]
            /\ k = 1 => ret = "PerfectUnison"
            /\ k = 8 => ret = "PerfectOctave"
            /\ k > 1 => semitones(interval_at_degree(arg.mode, ScaleDegreeOrder[k - 1]))
                            < semitones(ret)
            /\ (arg.mode = "Lydian" /\ k = 4) => ret = "AugmentedFourth"
            /\ (arg.mode = "Locrian" /\ k = 5) => ret = "DiminishedFifth"

C26_Witness ==
    /\ op = "ScaleMode::interval_at_degree"
    /\ arg = [mode |-> "Locrian", degree |-> "Fifth"]
    /\ ret = "DiminishedFifth"


(* C27: for every abstract note a, double accidentals included,            *)
(* a + PerfectOctave is a itself: the same letter and the same modifier.   *)
C27_AddOctaveIsIdentity ==
    (op = "AbstractNote::add_interval" /\ arg.interval = "PerfectOctave") =>
        ret = arg.note

C27_Witness ==
    /\ op = "AbstractNote::add_interval"
    /\ arg = [note |-> [raw_note |-> "F", modifier |-> "DoubleFlat"],
              interval |-> "PerfectOctave"]
    /\ ret = [raw_note |-> "F", modifier |-> "DoubleFlat"]


(* C28: for every named compound interval c, get_simple_interval(c) is     *)
(* what is left after taking whole octaves away: c.semitones() minus the   *)
(* semitones of get_simple_interval(c) is a positive multiple of 12, and   *)
(* every ninth yields a second.                                            *)
C28_SimpleIntervalOfCompound ==
    op = "CompoundInterval::get_simple_interval" =>
        LET rest == ret.semitones - semitones(ret.simple_interval) IN
        /\ ret.simple_interval \in SimpleInterval
        /\ rest > 0
        /\ rest % 12 = 0
        /\ arg.self.variant \in {"DiminishedNinth", "MinorNinth", "MajorNinth",
                                 "AugmentedNinth"}
              => interval_number(ret.simple_interval) = 2


(* C29: a chord built from a root r and a quality q with no added notes is *)
(* q.to_chord(r), and the root appears exactly once, as the first note;    *)
(* with added notes the result is q.to_notes(r) followed by the added      *)
(* notes in the order they were added.                                     *)
C29_BuilderIsToChord ==
    (op = "ChordBuilder::build" /\ arg.quality.some) =>
        LET q == arg.quality.value
            r == arg.root
        IN /\ Len(arg.added) = 0 =>
                /\ ret = to_chord(q, r).chord
                /\ ret.notes[1] = r
                /\ Cardinality({i \in 1..Len(ret.notes) : ret.notes[i] = r}) = 1
           /\ ret.notes = to_notes(q, r).notes \o arg.added


(* C30: for every one of the 26 simple intervals x, the semitones of x and *)
(* the semitones of x.inverse() add up to 12, the augmented and diminished *)
(* spellings included.                                                     *)
C30_InverseSemitonesSumTo12 ==
    op = "SimpleInterval::inverse" =>
        semitones(arg.interval) + semitones(ret) = 12

C30_Witness ==
    /\ op = "SimpleInterval::inverse"
    /\ arg.interval = "AugmentedThird"
    /\ ret = "DiminishedSixth"
    /\ semitones(arg.interval) = 5
    /\ semitones(ret) = 7

====
